---- MODULE Spec2Model ----
(***************************************************************************)
(* Model of the func-pro containers: class Option<T> (second class of      *)
(* src/unnamed/part_000) and class Result<T, E> (src/src/result.ts).       *)
(*                                                                         *)
(* Objects live in two heaps (sequences); an object's identity is its      *)
(* index, so `toBe` (same instance) is equality of indices.  Every public  *)
(* method is an operator from the heap and the arguments to an outcome     *)
(* (the heap afterwards, the value returned or the error thrown, and the   *)
(* log of the callbacks it invoked), and one action applies it.            *)
(***************************************************************************)
EXTENDS Naturals, Sequences, FiniteSets

VARIABLES options, results, call, ret

vars == <<options, results, call, ret>>

(***************************************************************************)
(* Bounds of the model.                                                    *)
(***************************************************************************)
MaxOptions == 3
MaxResults == 1
\* Containers the caller holds at once, Option.None included.
MaxObjects == 4

(***************************************************************************)
(* JavaScript values.                                                      *)
(***************************************************************************)
Null == [type |-> "null", n |-> 0, s |-> ""]
Undefined == [type |-> "undefined", n |-> 0, s |-> ""]
NoValue == [type |-> "no value", n |-> 0, s |-> ""]
Num(k) == [type |-> "number", n |-> k, s |-> ""]
Str(t) == [type |-> "string", n |-> 0, s |-> t]
Bool(b) == [type |-> "boolean", n |-> IF b THEN 1 ELSE 0, s |-> ""]
ArrayVal == [type |-> "array", n |-> 0, s |-> ""]
OptionRef(r) == [type |-> "Option", n |-> r, s |-> ""]

NoneMessage == "Cannot unwrap a None value"

Ten == Num(10)

\* The payloads the caller draws from: Option payloads and success values,
\* and failure values (a failure may be any message, the one of Option.unwrap
\* included).
Values == {Null, Ten}
ErrValues == {Null, Ten, Str(NoneMessage)}

Digit(d) ==
  CASE d = 0 -> "0" [] d = 1 -> "1" [] d = 2 -> "2" [] d = 3 -> "3"
    [] d = 4 -> "4" [] d = 5 -> "5" [] d = 6 -> "6" [] d = 7 -> "7"
    [] d = 8 -> "8" [] d = 9 -> "9"

RECURSIVE NumToStr(_)
NumToStr(k) == IF k < 10 THEN Digit(k) ELSE NumToStr(k \div 10) \o Digit(k % 10)

\* Mutant of String: the failure value's text taken as is, no conversion.
String_NoConversion(v) == v.s

\* String(value) of a primitive.
String(v) ==
  CASE v.type = "null" -> "null"
    [] v.type = "undefined" -> "undefined"
    [] v.type = "number" -> NumToStr(v.n)
    [] v.type = "boolean" -> IF v.n = 1 THEN "true" ELSE "false"
    [] v.type = "string" -> v.s

\* new Error(message)
Error(message) == [name |-> "Error", message |-> message]
NoError == [name |-> "", message |-> ""]

\* a === b
StrictEquals(a, b) == a.type = b.type /\ a.n = b.n /\ a.s = b.s

(***************************************************************************)
(* Outcomes of a call.                                                     *)
(***************************************************************************)
Return(heap, v, log) ==
  [heap |-> heap, threw |-> FALSE, val |-> v, arr |-> <<>>, error |-> NoError, log |-> log]

ReturnArray(heap, items, log) ==
  [heap |-> heap, threw |-> FALSE, val |-> ArrayVal, arr |-> items, error |-> NoError,
   log |-> log]

Throw(heap, e, log) ==
  [heap |-> heap, threw |-> TRUE, val |-> NoValue, arr |-> <<>>, error |-> e, log |-> log]

(***************************************************************************)
(* Callbacks the caller passes.                                            *)
(***************************************************************************)
Cb(name) == [name |-> name, val |-> Undefined]
Const(v) == [name |-> "const", val |-> v]
FreshSome(v) == [name |-> "freshSome", val |-> v]
NoCb == Cb("")

MapFns == {Cb("toNull"), Cb("swap")}
Predicates == {Cb("isNull"), Cb("notNull")}
ValueThunks == {Const(v) : v \in Values}
Refs(heap) == 1..Len(heap)
OptionThunks(heap) ==
  {Const(OptionRef(r)) : r \in Refs(heap)} \cup {FreshSome(v) : v \in Values}
OptionFns(heap) == {Const(OptionRef(r)) : r \in Refs(heap)} \cup {Cb("wrap")}

Called(cb, args) == [fn |-> cb, args |-> args]

(***************************************************************************)
(* class Option<T>                                                         *)
(***************************************************************************)
\* new Option<T>(isSome, value)
OptionObject(isSome, value) == [isSome |-> isSome, value |-> value]

\* static readonly None = new Option<never>(false, null as never): the first
\* object of the heap.
NoneRef == 1

InitialOptions == <<OptionObject(FALSE, Null)>>

\* Mutant of Some: the value is not stored.
Option_Some_DropsValue(heap, value) ==
  Return(Append(heap, OptionObject(TRUE, Null)), OptionRef(Len(heap) + 1), <<>>)

\* static Some<T>(value: T)
Option_Some(heap, value) ==
  Return(Append(heap, OptionObject(TRUE, value)), OptionRef(Len(heap) + 1), <<>>)

\* Calling a callback: the heap afterwards and the value it returns.
Invoke(heap, cb, args) ==
  CASE cb.name = "toNull" -> [heap |-> heap, val |-> Null]
    [] cb.name = "swap" -> [heap |-> heap, val |-> IF args[1] = Ten THEN Null ELSE Ten]
    [] cb.name = "isNull" -> [heap |-> heap, val |-> Bool(args[1] = Null)]
    [] cb.name = "notNull" -> [heap |-> heap, val |-> Bool(args[1] # Null)]
    [] cb.name = "noop" -> [heap |-> heap, val |-> Undefined]
    [] cb.name = "const" -> [heap |-> heap, val |-> cb.val]
    [] cb.name = "freshSome" ->
         LET s == Option_Some(heap, cb.val) IN [heap |-> s.heap, val |-> s.val]
    [] cb.name = "wrap" ->
         LET s == Option_Some(heap, args[1]) IN [heap |-> s.heap, val |-> s.val]
    [] cb.name = "closure" -> [heap |-> heap, val |-> cb.val]

Option_isSome(heap, self) == heap[self].isSome

Option_isNone(heap, self) == ~heap[self].isSome

\* Mutant of and: `other` is copied when it is present.
Option_and_Copies(heap, self, other) ==
  IF ~heap[self].isSome \/ ~heap[other].isSome
    THEN Return(heap, OptionRef(NoneRef), <<>>)
    ELSE Return(Append(heap, OptionObject(TRUE, heap[other].value)),
                OptionRef(Len(heap) + 1), <<>>)

Option_and(heap, self, other) ==
  IF Option_isNone(heap, self)
    THEN Return(heap, OptionRef(NoneRef), <<>>)
    ELSE Return(heap, OptionRef(other), <<>>)

Option_match(heap, self, someCb, noneCb) ==
  IF Option_isSome(heap, self)
    THEN LET r == Invoke(heap, someCb, <<heap[self].value>>)
         IN  Return(r.heap, r.val, <<Called(someCb, <<heap[self].value>>)>>)
    ELSE LET r == Invoke(heap, noneCb, <<>>)
         IN  Return(r.heap, r.val, <<Called(noneCb, <<>>)>>)

\* The closures andThen and orElse build for match.
NoneClosure == [name |-> "closure", val |-> OptionRef(NoneRef)]
ThisClosure(self) == [name |-> "closure", val |-> OptionRef(self)]

\* Mutant of andThen: the result of fn is wrapped again, as map does.
Option_andThen_Wraps(heap, self, fn) ==
  IF heap[self].isSome
    THEN LET r == Invoke(heap, fn, <<heap[self].value>>)
         IN  Return(Append(r.heap, OptionObject(TRUE, r.val)), OptionRef(Len(r.heap) + 1),
                    <<Called(fn, <<heap[self].value>>)>>)
    ELSE Return(heap, OptionRef(NoneRef), <<>>)

Option_andThen(heap, self, fn) == Option_match(heap, self, fn, NoneClosure)

\* Mutant of equals: the value slots are compared whatever the variants.
Option_equals_SlotsOnly(heap, self, other) ==
  Return(heap, Bool(heap[self].value = heap[other].value), <<>>)

Option_equals(heap, self, other) ==
  IF Option_isNone(heap, self) /\ Option_isNone(heap, other)
    THEN Return(heap, Bool(TRUE), <<>>)
    ELSE IF \/ Option_isNone(heap, self) /\ Option_isSome(heap, other)
            \/ Option_isSome(heap, self) /\ Option_isNone(heap, other)
      THEN Return(heap, Bool(FALSE), <<>>)
      ELSE Return(heap, Bool(StrictEquals(heap[self].value, heap[other].value)), <<>>)

\* Mutant of filter: an absent result is a new absent object.
Option_filter_NewNone(heap, self, predicate) ==
  IF heap[self].isSome /\ Invoke(heap, predicate, <<heap[self].value>>).val = Bool(TRUE)
    THEN Return(Append(heap, OptionObject(TRUE, heap[self].value)),
                OptionRef(Len(heap) + 1), <<Called(predicate, <<heap[self].value>>)>>)
    ELSE Return(Append(heap, OptionObject(FALSE, Null)), OptionRef(Len(heap) + 1), <<>>)

Option_filter(heap, self, predicate) ==
  IF Option_isSome(heap, self)
    THEN LET p == Invoke(heap, predicate, <<heap[self].value>>)
             log == <<Called(predicate, <<heap[self].value>>)>>
         IN  IF p.val = Bool(TRUE)
               THEN LET s == Option_Some(p.heap, heap[self].value)
                    IN  Return(s.heap, s.val, log)
               ELSE Return(p.heap, OptionRef(NoneRef), log)
    ELSE Return(heap, OptionRef(NoneRef), <<>>)

Option_letSome(heap, self, fn) ==
  IF Option_isSome(heap, self)
    THEN LET r == Invoke(heap, fn, <<heap[self].value>>)
         IN  Return(r.heap, Undefined, <<Called(fn, <<heap[self].value>>)>>)
    ELSE Return(heap, Undefined, <<>>)

\* Mutant of map: the receiver's value is replaced in place.
Option_map_InPlace(heap, self, fn) ==
  IF heap[self].isSome
    THEN Return([heap EXCEPT ![self].value = Invoke(heap, fn, <<heap[self].value>>).val],
                OptionRef(self), <<Called(fn, <<heap[self].value>>)>>)
    ELSE Return(heap, OptionRef(NoneRef), <<>>)

Option_map(heap, self, fn) ==
  IF Option_isSome(heap, self)
    THEN LET r == Invoke(heap, fn, <<heap[self].value>>)
             s == Option_Some(r.heap, r.val)
         IN  Return(s.heap, s.val, <<Called(fn, <<heap[self].value>>)>>)
    ELSE Return(heap, OptionRef(NoneRef), <<>>)

\* Mutant of mapOr: None stays None, the default is dropped.
Option_mapOr_AsMap(heap, self, defaultValue, fn) ==
  IF heap[self].isSome
    THEN Return(Append(heap, OptionObject(TRUE, Invoke(heap, fn, <<heap[self].value>>).val)),
                OptionRef(Len(heap) + 1), <<Called(fn, <<heap[self].value>>)>>)
    ELSE Return(heap, OptionRef(NoneRef), <<>>)

Option_mapOr(heap, self, defaultValue, fn) ==
  IF Option_isSome(heap, self)
    THEN Option_map(heap, self, fn)
    ELSE Option_Some(heap, defaultValue)

Option_mapOrElse(heap, self, defaultValue, fn) ==
  IF Option_isSome(heap, self)
    THEN Option_map(heap, self, fn)
    ELSE LET d == Invoke(heap, defaultValue, <<>>)
             s == Option_Some(d.heap, d.val)
         IN  Return(s.heap, s.val, <<Called(defaultValue, <<>>)>>)

\* Mutant of or: prefers `other` when both are present.
Option_or_PrefersOther(heap, self, other) ==
  IF heap[other].isSome
    THEN Return(heap, OptionRef(other), <<>>)
    ELSE Return(heap, OptionRef(self), <<>>)

Option_or(heap, self, other) ==
  IF Option_isSome(heap, self)
    THEN Return(heap, OptionRef(self), <<>>)
    ELSE Return(heap, OptionRef(other), <<>>)

\* Mutant of orElse: fn is called before the variant is looked at.
Option_orElse_Eager(heap, self, fn) ==
  LET r == Invoke(heap, fn, <<>>)
  IN  IF heap[self].isSome
        THEN Return(r.heap, OptionRef(self), <<Called(fn, <<>>)>>)
        ELSE Return(r.heap, r.val, <<Called(fn, <<>>)>>)

Option_orElse(heap, self, fn) == Option_match(heap, self, ThisClosure(self), fn)

\* Mutant of toArray: the value slot is handed out whatever the variant.
Option_toArray_Slot(heap, self) == ReturnArray(heap, <<heap[self].value>>, <<>>)

Option_toArray(heap, self) ==
  IF Option_isSome(heap, self)
    THEN ReturnArray(heap, <<heap[self].value>>, <<>>)
    ELSE ReturnArray(heap, <<>>, <<>>)

\* Mutants of unwrap: None hands out its value slot; None throws an error of
\* a kind of its own.
Option_unwrap_ReturnsSlot(heap, self) == Return(heap, heap[self].value, <<>>)

Option_unwrap_OwnKind(heap, self) ==
  IF heap[self].isSome
    THEN Return(heap, heap[self].value, <<>>)
    ELSE Throw(heap, [name |-> "UnwrapOnAbsent", message |-> NoneMessage], <<>>)

Option_unwrap(heap, self) ==
  IF Option_isSome(heap, self)
    THEN Return(heap, heap[self].value, <<>>)
    ELSE Throw(heap, Error(NoneMessage), <<>>)

Option_unwrapOr(heap, self, defaultValue) ==
  IF Option_isSome(heap, self)
    THEN Return(heap, heap[self].value, <<>>)
    ELSE Return(heap, defaultValue, <<>>)

\* Mutant of unwrapOrElse: unwraps first, so None throws.
Option_unwrapOrElse_Unwraps(heap, self, fn) ==
  IF heap[self].isSome
    THEN Return(heap, heap[self].value, <<>>)
    ELSE Throw(heap, Error(NoneMessage), <<>>)

Option_unwrapOrElse(heap, self, fn) ==
  IF Option_isSome(heap, self)
    THEN Return(heap, heap[self].value, <<>>)
    ELSE LET r == Invoke(heap, fn, <<>>)
         IN  Return(r.heap, r.val, <<Called(fn, <<>>)>>)

\* Mutant of xor: behaves as or.
Option_xor_AsOr(heap, self, other) ==
  IF heap[self].isSome
    THEN Return(heap, OptionRef(self), <<>>)
    ELSE Return(heap, OptionRef(other), <<>>)

Option_xor(heap, self, other) ==
  IF Option_isSome(heap, self) /\ Option_isNone(heap, other)
    THEN Return(heap, OptionRef(self), <<>>)
    ELSE IF Option_isSome(heap, other) /\ Option_isNone(heap, self)
      THEN Return(heap, OptionRef(other), <<>>)
      ELSE Return(heap, OptionRef(NoneRef), <<>>)

(***************************************************************************)
(* class Result<T, E>                                                      *)
(***************************************************************************)
ResultRef(r) == [type |-> "Result", n |-> r, s |-> ""]

\* new Result<T, E>(isOk, value, error)
ResultObject(isOk, value, error) == [isOk |-> isOk, value |-> value, error |-> error]

Result_Ok(heap, value) ==
  Return(Append(heap, ResultObject(TRUE, value, Null)), ResultRef(Len(heap) + 1), <<>>)

Result_Err(heap, error) ==
  Return(Append(heap, ResultObject(FALSE, Null, error)), ResultRef(Len(heap) + 1), <<>>)

Result_isOk(heap, self) == heap[self].isOk

Result_isErr(heap, self) == ~heap[self].isOk

Result_unwrap(heap, self) ==
  IF Result_isOk(heap, self)
    THEN Return(heap, heap[self].value, <<>>)
    ELSE Throw(heap, Error(String(heap[self].error)), <<>>)

\* ok(): Some(value) of a success, Option.None of a failure.  `heap` is the
\* Option heap the result goes to, `rs` the Result heap.
Result_ok(heap, rs, self) ==
  IF Result_isOk(rs, self)
    THEN Option_Some(heap, rs[self].value)
    ELSE Return(heap, OptionRef(NoneRef), <<>>)

\* err(): Some(error) of a failure, Option.None of a success.
Result_err(heap, rs, self) ==
  IF Result_isErr(rs, self)
    THEN Option_Some(heap, rs[self].error)
    ELSE Return(heap, OptionRef(NoneRef), <<>>)

(***************************************************************************)
(* The program: a caller that constructs containers and calls their        *)
(* methods, one call per step.  `call` is the call made last and `ret`     *)
(* what came of it.                                                        *)
(***************************************************************************)
NoCall ==
  [cls |-> "", op |-> "", self |-> 0, other |-> 0, arg |-> NoValue, fn |-> NoCb,
   dfn |-> NoCb]

NoRet ==
  [threw |-> FALSE, val |-> NoValue, arr |-> <<>>, error |-> NoError, log |-> <<>>]

OptionCall(op, self, other, arg, fn, dfn) ==
  [cls |-> "Option", op |-> op, self |-> self, other |-> other, arg |-> arg, fn |-> fn,
   dfn |-> dfn]

ResultCall(op, self, arg) ==
  [cls |-> "Result", op |-> op, self |-> self, other |-> 0, arg |-> arg, fn |-> NoCb,
   dfn |-> NoCb]

OutcomeOf(out) ==
  [threw |-> out.threw, val |-> out.val, arr |-> out.arr, error |-> out.error,
   log |-> out.log]

\* A call on the Option heap.
OnOptions(c, out) ==
  /\ Len(out.heap) <= MaxOptions
  /\ Len(out.heap) + Len(results) <= MaxObjects
  /\ options' = out.heap
  /\ call' = c
  /\ ret' = OutcomeOf(out)
  /\ UNCHANGED results

\* A call on the Result heap.
OnResults(c, out) ==
  /\ Len(out.heap) <= MaxResults
  /\ Len(options) + Len(out.heap) <= MaxObjects
  /\ results' = out.heap
  /\ call' = c
  /\ ret' = OutcomeOf(out)
  /\ UNCHANGED options

Init ==
  /\ options = InitialOptions
  /\ results = <<>>
  /\ call = NoCall
  /\ ret = NoRet

Some ==
  \E value \in Values :
    OnOptions(OptionCall("Some", 0, 0, value, NoCb, NoCb), Option_Some(options, value))

isSome ==
  \E self \in Refs(options) :
    OnOptions(OptionCall("isSome", self, 0, NoValue, NoCb, NoCb),
              Return(options, Bool(Option_isSome(options, self)), <<>>))

isNone ==
  \E self \in Refs(options) :
    OnOptions(OptionCall("isNone", self, 0, NoValue, NoCb, NoCb),
              Return(options, Bool(Option_isNone(options, self)), <<>>))

and ==
  \E self \in Refs(options), other \in Refs(options) :
    OnOptions(OptionCall("and", self, other, NoValue, NoCb, NoCb),
              Option_and(options, self, other))

andThen ==
  \E self \in Refs(options), fn \in OptionFns(options) :
    OnOptions(OptionCall("andThen", self, 0, NoValue, fn, NoCb),
              Option_andThen(options, self, fn))

equals ==
  \E self \in Refs(options), other \in Refs(options) :
    OnOptions(OptionCall("equals", self, other, NoValue, NoCb, NoCb),
              Option_equals(options, self, other))

filter ==
  \E self \in Refs(options), predicate \in Predicates :
    OnOptions(OptionCall("filter", self, 0, NoValue, predicate, NoCb),
              Option_filter(options, self, predicate))

letSome ==
  \E self \in Refs(options) :
    OnOptions(OptionCall("letSome", self, 0, NoValue, Cb("noop"), NoCb),
              Option_letSome(options, self, Cb("noop")))

map ==
  \E self \in Refs(options), fn \in MapFns :
    OnOptions(OptionCall("map", self, 0, NoValue, fn, NoCb),
              Option_map(options, self, fn))

mapOr ==
  \E self \in Refs(options), defaultValue \in Values, fn \in MapFns :
    OnOptions(OptionCall("mapOr", self, 0, defaultValue, fn, NoCb),
              Option_mapOr(options, self, defaultValue, fn))

mapOrElse ==
  \E self \in Refs(options), defaultValue \in ValueThunks, fn \in MapFns :
    OnOptions(OptionCall("mapOrElse", self, 0, NoValue, fn, defaultValue),
              Option_mapOrElse(options, self, defaultValue, fn))

match ==
  \E self \in Refs(options), someCb \in MapFns, noneCb \in ValueThunks :
    OnOptions(OptionCall("match", self, 0, NoValue, someCb, noneCb),
              Option_match(options, self, someCb, noneCb))

or ==
  \E self \in Refs(options), other \in Refs(options) :
    OnOptions(OptionCall("or", self, other, NoValue, NoCb, NoCb),
              Option_or(options, self, other))

orElse ==
  \E self \in Refs(options), fn \in OptionThunks(options) :
    OnOptions(OptionCall("orElse", self, 0, NoValue, NoCb, fn),
              Option_orElse(options, self, fn))

toArray ==
  \E self \in Refs(options) :
    OnOptions(OptionCall("toArray", self, 0, NoValue, NoCb, NoCb),
              Option_toArray(options, self))

unwrap ==
  \E self \in Refs(options) :
    OnOptions(OptionCall("unwrap", self, 0, NoValue, NoCb, NoCb),
              Option_unwrap(options, self))

unwrapOr ==
  \E self \in Refs(options), defaultValue \in Values :
    OnOptions(OptionCall("unwrapOr", self, 0, defaultValue, NoCb, NoCb),
              Option_unwrapOr(options, self, defaultValue))

unwrapOrElse ==
  \E self \in Refs(options), fn \in ValueThunks :
    OnOptions(OptionCall("unwrapOrElse", self, 0, NoValue, NoCb, fn),
              Option_unwrapOrElse(options, self, fn))

xor ==
  \E self \in Refs(options), other \in Refs(options) :
    OnOptions(OptionCall("xor", self, other, NoValue, NoCb, NoCb),
              Option_xor(options, self, other))

Ok ==
  \E value \in Values :
    OnResults(ResultCall("Ok", 0, value), Result_Ok(results, value))

Err ==
  \E error \in ErrValues :
    OnResults(ResultCall("Err", 0, error), Result_Err(results, error))

isOk ==
  \E self \in Refs(results) :
    OnResults(ResultCall("isOk", self, NoValue),
              Return(results, Bool(Result_isOk(results, self)), <<>>))

isErr ==
  \E self \in Refs(results) :
    OnResults(ResultCall("isErr", self, NoValue),
              Return(results, Bool(Result_isErr(results, self)), <<>>))

ResultUnwrap ==
  \E self \in Refs(results) :
    OnResults(ResultCall("unwrap", self, NoValue), Result_unwrap(results, self))

ok ==
  \E self \in Refs(results) :
    OnOptions(ResultCall("ok", self, NoValue), Result_ok(options, results, self))

err ==
  \E self \in Refs(results) :
    OnOptions(ResultCall("err", self, NoValue), Result_err(options, results, self))

Next ==
  \/ Some \/ isSome \/ isNone \/ and \/ andThen \/ equals \/ filter \/ letSome
  \/ map \/ mapOr \/ mapOrElse \/ match \/ or \/ orElse \/ toArray \/ unwrap
  \/ unwrapOr \/ unwrapOrElse \/ xor
  \/ Ok \/ Err \/ isOk \/ isErr \/ ResultUnwrap \/ ok \/ err

Spec == Init /\ [][Next]_vars

(***************************************************************************)
(* Properties.                                                             *)
(***************************************************************************)
OptionCalled(op) == call.cls = "Option" /\ call.op = op
ResultCalled(op) == call.cls = "Result" /\ call.op = op

\* The receiver of the last Option call, as it is now.
Receiver == options[call.self]

\* How many times the last call invoked the callback cb.
Invocations(cb) == Cardinality({k \in 1..Len(ret.log) : ret.log[k].fn = cb})

\* C1: Option.unwrap returns the contained value v of every Some(v); on None
\* it returns no value and raises an error.
C1_UnwrapSomeElseRaise ==
  OptionCalled("unwrap") =>
    IF Receiver.isSome
      THEN ~ret.threw /\ ret.val = Receiver.value /\ ret.error = NoError
      ELSE ret.threw /\ ret.val = NoValue /\ ret.error # NoError

C1_Witness == OptionCalled("unwrap") /\ ~Receiver.isSome /\ ret.threw

\* The text JavaScript gives each failure value of the model.
TextOf(e) ==
  CASE e = Null -> "null"
    [] e = Ten -> "10"
    [] e = Str(NoneMessage) -> "Cannot unwrap a None value"

\* C2: Result.unwrap returns v for every Ok(v); for every Err(e) it returns
\* no value and raises an error whose message is the string representation
\* of e.
C2_ResultUnwrap ==
  ResultCalled("unwrap") =>
    IF results[call.self].isOk
      THEN ~ret.threw /\ ret.val = results[call.self].value
      ELSE /\ ret.threw
           /\ ret.val = NoValue
           /\ ret.error.message = TextOf(results[call.self].error)

C2_Witness ==
  /\ ResultCalled("unwrap")
  /\ ~results[call.self].isOk
  /\ results[call.self].error = Ten
  /\ ret.error.message = "10"

\* The error Option.None.unwrap() raises.
UnwrapOnNoneError == Option_unwrap(options, NoneRef).error

TotalOps ==
  {"and", "andThen", "equals", "filter", "isNone", "isSome", "letSome", "map",
   "mapOr", "mapOrElse", "match", "or", "orElse", "toArray", "unwrapOr",
   "unwrapOrElse", "xor"}

\* C4: every Option operation other than unwrap completes without raising an
\* error, on a present and on an absent receiver, when its callbacks do not
\* fail.
C4_OthersTotal ==
  (call.cls = "Option" /\ call.op \in TotalOps) =>
    ~ret.threw /\ ret.error = NoError /\ ret.val # NoValue

C4_Witness == OptionCalled("unwrapOrElse") /\ ~Receiver.isSome /\ ~ret.threw

\* C5: every absent Option that exists is the instance Option.None; and,
\* andThen on None, filter, map and xor return Option.None itself when their
\* result is absent.
C5_CanonicalNone ==
  /\ \A r \in Refs(options) : ~options[r].isSome => r = NoneRef
  /\ (call.cls = "Option" /\ ret.val.type = "Option" /\ ~options[ret.val.n].isSome) =>
       ret.val = OptionRef(NoneRef)

C5_Witness ==
  /\ OptionCalled("filter")
  /\ Receiver.isSome
  /\ Invocations(call.fn) = 1
  /\ ret.val = OptionRef(NoneRef)

\* C6: no public operation changes the variant or the stored value of a
\* container that exists, receiver or argument: every step leaves every
\* existing Option and Result as it was constructed.
C6_Immutable ==
  [][/\ \A r \in Refs(options) : r \in Refs(options') /\ options'[r] = options[r]
     /\ \A r \in Refs(results) : r \in Refs(results') /\ results'[r] = results[r]]_vars

C6_Witness ==
  /\ OptionCalled("map")
  /\ Receiver.isSome
  /\ ret.val.n # call.self
  /\ options[ret.val.n].value # Receiver.value

\* C7: the function given to orElse, mapOrElse (its default function) and
\* unwrapOrElse is invoked exactly once on None and never on Some; the
\* mapping function of andThen, map, mapOr and mapOrElse is never invoked on
\* None.
C7_Laziness ==
  /\ (call.cls = "Option" /\ call.op \in {"orElse", "mapOrElse", "unwrapOrElse"}) =>
       Invocations(call.dfn) = IF Receiver.isSome THEN 0 ELSE 1
  /\ (call.cls = "Option" /\ call.op \in {"andThen", "map", "mapOr", "mapOrElse"}) =>
       (~Receiver.isSome => Invocations(call.fn) = 0)

C7_Witness ==
  /\ OptionCalled("mapOrElse")
  /\ ~Receiver.isSome
  /\ Invocations(call.dfn) = 1
  /\ Invocations(call.fn) = 0

\* C8: a.and(b) is the canonical None when a is None, and b itself (the same
\* instance) when a is Some, whether b is present or absent.
C8_And ==
  OptionCalled("and") =>
    /\ ~ret.threw
    /\ ret.val = IF Receiver.isSome THEN OptionRef(call.other) ELSE OptionRef(NoneRef)

C8_Witness ==
  /\ OptionCalled("and")
  /\ Receiver.isSome
  /\ options[call.other].isSome
  /\ call.other # call.self
  /\ ret.val = OptionRef(call.other)

\* C9: a.xor(b) is whichever of a and b is present (that instance) when
\* exactly one is, and None when both or neither are present.
C9_Xor ==
  OptionCalled("xor") =>
    /\ ~ret.threw
    /\ ret.val =
         CASE Receiver.isSome /\ ~options[call.other].isSome -> OptionRef(call.self)
           [] ~Receiver.isSome /\ options[call.other].isSome -> OptionRef(call.other)
           [] OTHER -> OptionRef(NoneRef)

C9_Witness ==
  /\ OptionCalled("xor")
  /\ Receiver.isSome
  /\ options[call.other].isSome
  /\ call.other # call.self
  /\ ret.val = OptionRef(NoneRef)

\* C10: on Some, or and orElse return the receiver itself; on None, or
\* returns the given other Option itself and orElse exactly the Option fn()
\* produced.
C10_OrOrElse ==
  /\ OptionCalled("or") =>
       ret.val = IF Receiver.isSome THEN OptionRef(call.self) ELSE OptionRef(call.other)
  /\ OptionCalled("orElse") =>
       IF Receiver.isSome
         THEN ret.val = OptionRef(call.self)
         ELSE IF call.dfn.name = "const"
           THEN ret.val = call.dfn.val
           ELSE /\ ret.val = OptionRef(Len(options))
                /\ options[Len(options)] = OptionObject(TRUE, call.dfn.val)

C10_Witness ==
  /\ OptionCalled("orElse")
  /\ ~Receiver.isSome
  /\ call.dfn.name = "freshSome"
  /\ ret.val = OptionRef(Len(options))
  /\ Len(options) > 1

\* C11: andThen on None returns None; on Some(v) it invokes fn exactly once,
\* with v, and returns the very Option fn(v) returned, not wrapped again.
C11_AndThen ==
  OptionCalled("andThen") =>
    IF Receiver.isSome
      THEN /\ ret.log = <<Called(call.fn, <<Receiver.value>>)>>
           /\ IF call.fn.name = "const"
                THEN ret.val = call.fn.val
                ELSE /\ ret.val = OptionRef(Len(options))
                     /\ ret.val.n # call.self
                     /\ options[Len(options)] = OptionObject(TRUE, Receiver.value)
      ELSE ret.val = OptionRef(NoneRef) /\ Invocations(call.fn) = 0

C11_Witness ==
  /\ OptionCalled("andThen")
  /\ Receiver.isSome
  /\ call.fn.name = "const"
  /\ call.fn.val.n \notin {call.self, NoneRef}
  /\ ret.val = call.fn.val
  /\ Invocations(call.fn) = 1

\* What each mapping callback of the model gives.
Mapped(fn, x) ==
  CASE fn = Cb("toNull") -> Null
    [] fn = Cb("swap") /\ x = Ten -> Null
    [] fn = Cb("swap") /\ x = Null -> Ten
    [] fn = Cb("swap") /\ x \notin {Ten, Null} -> Ten

\* C12: mapOr and mapOrElse always return a present Option: holding f(x) on
\* Some(x), and holding the default d (wrapped, not bare) on None, d being
\* given to mapOr and computed by the default function of mapOrElse.
C12_MapOrPresent ==
  (call.cls = "Option" /\ call.op \in {"mapOr", "mapOrElse"}) =>
    /\ ~ret.threw
    /\ ret.val.type = "Option"
    /\ ret.val.n \in Refs(options)
    /\ options[ret.val.n].isSome
    /\ options[ret.val.n].value =
         IF Receiver.isSome THEN Mapped(call.fn, Receiver.value)
         ELSE IF call.op = "mapOr" THEN call.arg ELSE call.dfn.val

C12_Witness ==
  /\ OptionCalled("mapOr")
  /\ ~Receiver.isSome
  /\ call.arg = Ten
  /\ options[ret.val.n] = OptionObject(TRUE, Ten)

\* C13: a.equals(b) is true if both are absent, false if exactly one is, and
\* otherwise true exactly when the contained values are equal; b.equals(a)
\* gives the same.
C13_Equals ==
  OptionCalled("equals") =>
    /\ ret.val =
         CASE ~Receiver.isSome /\ ~options[call.other].isSome -> Bool(TRUE)
           [] Receiver.isSome # options[call.other].isSome -> Bool(FALSE)
           [] OTHER -> Bool(Receiver.value = options[call.other].value)
    /\ ret.val = Option_equals(options, call.other, call.self).val

C13_Witness ==
  /\ OptionCalled("equals")
  /\ ~Receiver.isSome
  /\ options[call.other] = OptionObject(TRUE, Null)
  /\ ret.val = Bool(FALSE)

\* Whether the Option an outcome returns is present, in the outcome's heap.
Present(out) == out.heap[out.val.n].isSome

\* C14: of r.ok() and r.err() exactly one is present and the other is the
\* canonical None; Ok(x).ok().unwrap() is x and Ok(x).err() is None;
\* Err(e).err().unwrap() is e and Err(e).ok() is None.
C14_Bridge ==
  /\ \A r \in Refs(results) :
       LET o == Result_ok(options, results, r)
           e == Result_err(options, results, r)
       IN  /\ Present(o) # Present(e)
           /\ ~Present(o) => o.val = OptionRef(NoneRef)
           /\ ~Present(e) => e.val = OptionRef(NoneRef)
  /\ ResultCalled("ok") =>
       IF results[call.self].isOk
         THEN /\ options[ret.val.n].isSome
              /\ Option_unwrap(options, ret.val.n).val = results[call.self].value
         ELSE ret.val = OptionRef(NoneRef)
  /\ ResultCalled("err") =>
       IF results[call.self].isOk
         THEN ret.val = OptionRef(NoneRef)
         ELSE /\ options[ret.val.n].isSome
              /\ Option_unwrap(options, ret.val.n).val = results[call.self].error

C14_Witness ==
  /\ ResultCalled("err")
  /\ results[call.self] = ResultObject(FALSE, Null, Ten)
  /\ options[ret.val.n] = OptionObject(TRUE, Ten)

\* The heap with another value in the value slot of Option.None.
Placeholder == Str("placeholder")
WithPlaceholder(heap) == [heap EXCEPT ![NoneRef].value = Placeholder]

\* Two outcomes that differ in nothing but the value slot of Option.None.
SlotUnseen(a, b) ==
  /\ a.threw = b.threw
  /\ a.val = b.val
  /\ a.arr = b.arr
  /\ a.error = b.error
  /\ a.log = b.log
  /\ b.heap = WithPlaceholder(a.heap)

\* What is in the value slot of None changes no call that involves None.
NoneSlotUnseen ==
  LET h == options
      p == WithPlaceholder(options)
  IN  /\ \A o \in Refs(options) :
           /\ SlotUnseen(Option_and(h, NoneRef, o), Option_and(p, NoneRef, o))
           /\ SlotUnseen(Option_and(h, o, NoneRef), Option_and(p, o, NoneRef))
           /\ SlotUnseen(Option_equals(h, NoneRef, o), Option_equals(p, NoneRef, o))
           /\ SlotUnseen(Option_equals(h, o, NoneRef), Option_equals(p, o, NoneRef))
           /\ SlotUnseen(Option_or(h, NoneRef, o), Option_or(p, NoneRef, o))
           /\ SlotUnseen(Option_or(h, o, NoneRef), Option_or(p, o, NoneRef))
           /\ SlotUnseen(Option_xor(h, NoneRef, o), Option_xor(p, NoneRef, o))
           /\ SlotUnseen(Option_xor(h, o, NoneRef), Option_xor(p, o, NoneRef))
      /\ \A fn \in OptionFns(options) :
           SlotUnseen(Option_andThen(h, NoneRef, fn), Option_andThen(p, NoneRef, fn))
      /\ \A fn \in OptionThunks(options) :
           SlotUnseen(Option_orElse(h, NoneRef, fn), Option_orElse(p, NoneRef, fn))
      /\ \A fn \in Predicates :
           SlotUnseen(Option_filter(h, NoneRef, fn), Option_filter(p, NoneRef, fn))
      /\ SlotUnseen(Option_letSome(h, NoneRef, Cb("noop")), Option_letSome(p, NoneRef, Cb("noop")))
      /\ SlotUnseen(Option_toArray(h, NoneRef), Option_toArray(p, NoneRef))
      /\ \A fn \in MapFns :
           /\ SlotUnseen(Option_map(h, NoneRef, fn), Option_map(p, NoneRef, fn))
           /\ \A d \in Values :
                /\ SlotUnseen(Option_mapOr(h, NoneRef, d, fn), Option_mapOr(p, NoneRef, d, fn))
                /\ SlotUnseen(Option_mapOrElse(h, NoneRef, Const(d), fn),
                              Option_mapOrElse(p, NoneRef, Const(d), fn))
                /\ SlotUnseen(Option_match(h, NoneRef, fn, Const(d)),
                              Option_match(p, NoneRef, fn, Const(d)))
      /\ \A d \in Values :
           /\ SlotUnseen(Option_unwrapOr(h, NoneRef, d), Option_unwrapOr(p, NoneRef, d))
           /\ SlotUnseen(Option_unwrapOrElse(h, NoneRef, Const(d)),
                         Option_unwrapOrElse(p, NoneRef, Const(d)))

\* The last call was made on None: nothing it returned or passed on came
\* from the value slot.
OnNoneNothingStored ==
  (call.cls = "Option" /\ call.op \in TotalOps /\ ~Receiver.isSome) =>
    /\ \A k \in 1..Len(ret.log) : ret.log[k].args = <<>>
    /\ call.op = "toArray" => ret.arr = <<>>
    /\ call.op = "unwrapOr" => ret.val = call.arg
    /\ call.op \in {"unwrapOrElse", "match"} => ret.val = call.dfn.val
    /\ call.op \in {"map", "filter"} => ret.val = OptionRef(NoneRef)
    /\ call.op = "letSome" => ret.log = <<>> /\ ret.val = Undefined
    /\ call.op = "or" => ret.val = OptionRef(call.other)
    /\ call.op = "xor" =>
         ret.val = IF options[call.other].isSome THEN OptionRef(call.other)
                   ELSE OptionRef(NoneRef)
    /\ call.op = "equals" => ret.val = Bool(~options[call.other].isSome)

\* The last call was made on Some(null): it is treated as present.
SomeNullIsPresent ==
  (call.cls = "Option" /\ call.self \in Refs(options) /\ Receiver = OptionObject(TRUE, Null)) =>
    /\ call.op = "isSome" => ret.val = Bool(TRUE)
    /\ call.op = "isNone" => ret.val = Bool(FALSE)
    /\ call.op = "unwrap" => ~ret.threw /\ ret.val = Null
    /\ call.op \in {"unwrapOr", "unwrapOrElse"} => ret.val = Null /\ ret.log = <<>>
    /\ call.op = "toArray" => ret.arr = <<Null>>
    /\ call.op \in {"map", "mapOr", "mapOrElse", "match", "andThen", "filter", "letSome"} =>
         ret.log = <<Called(call.fn, <<Null>>)>>
    /\ call.op = "filter" =>
         IF call.fn = Cb("isNull")
           THEN ret.val.n # NoneRef /\ options[ret.val.n] = OptionObject(TRUE, Null)
           ELSE ret.val = OptionRef(NoneRef)
    /\ call.op \in {"or", "orElse"} => ret.val = OptionRef(call.self)
    /\ call.op = "and" => ret.val = OptionRef(call.other)
    /\ call.op = "xor" =>
         ret.val = IF options[call.other].isSome THEN OptionRef(NoneRef)
                   ELSE OptionRef(call.self)
    /\ call.op = "equals" =>
         ret.val = Bool(options[call.other] = OptionObject(TRUE, Null))

\* C15: no operation on None returns the placeholder of its value slot,
\* passes it to a callback or lets it influence a result; a Some whose
\* payload is null is treated as present by every operation.
C15_NoneStoresNothing == NoneSlotUnseen /\ OnNoneNothingStored /\ SomeNullIsPresent

C15_Witness ==
  /\ OptionCalled("equals")
  /\ ~Receiver.isSome
  /\ options[call.other] = OptionObject(TRUE, Null)
  /\ ret.val = Bool(FALSE)
  /\ Option_toArray(options, NoneRef).arr = <<>>

====
